---- MODULE Spec2Model ----
(***************************************************************************)
(* A model of ghslpy: the product catalog and its validation               *)
(* (ghslpy/products.py), the acquisition / mosaic pipeline                 *)
(* (ghslpy/download.py), vectorization and the year-of-transition layer    *)
(* (ghslpy/vectors/) and the urban-pattern classifier                      *)
(* (ghslpy/metrics/pixelwise.py).  Each has its own specification: Spec,   *)
(* SpecValidate, SpecVectorize, SpecTransition, SpecPattern; SpecFetch     *)
(* follows one archive fetch through its temporary directory.              *)
(*                                                                         *)
(* Strings that the code splits, joins or rewrites character-wise (product *)
(* names, archive names, URL-name templates) are sequences of tokens, the  *)
(* separators "-" and "_" being tokens of their own: "GHS-BUILT-S" is      *)
(* <<"GHS", "-", "BUILT", "-", "S">>.  Strings that are only compared      *)
(* (resolutions, classifications) are TLA+ strings.  Python's None in a    *)
(* string-typed argument is the string "None", which is no resolution and  *)
(* no classification of the catalog.                                       *)
(***************************************************************************)
EXTENDS Integers, Sequences, FiniteSets, TLC

VARIABLES
    \* ---- validate_product_options called on its own (products.py)
    v_pc,               \* "idle", "call" (before the call) or "done" (after it)
    v_args,             \* the arguments of the call
    v_result,           \* what the call returned or raised, once done
    \* ---- one download() request (download.py)
    request,            \* products, epoch, resolution, classification, region
    pc,                 \* "loop", "tiles", "built", "returned" or "raised"
    e_idx,              \* index of the epoch being processed
    p_idx,              \* index of the product being processed
    intersecting_tiles, \* _download_tiles: the tiles selected for the region
    tile_idx,           \* _download_tiles: index of the next tile to fetch
    datasets,           \* _download_tiles: the grids of the tiles fetched so far
    attempts,           \* history: per tile attempted in this build, how it ended
    merged_ds,          \* the grid the last finished build returned
    epoch_datasets,     \* download: the datasets of the current epoch
    all_datasets,       \* download: the merged datasets of the finished epochs
    fetch_log,          \* history: the URL of every archive fetch issued
    outcome,            \* what download() returned or raised, once it has
    \* ---- one call of smod_year_of_transition (vectors/smod_functions.py)
    t_pc,               \* "idle", "call" or "done"
    t_gdf,              \* the vector layer passed in: a sequence of rows
    t_result,           \* what the call returned or raised, once done
    \* ---- one call of monocentric_polycentric_pattern (metrics/pixelwise.py)
    u_pc,               \* "idle", "call" or "done"
    u_args,             \* pop_data, density_threshold, search_radius
    u_urban_centers,    \* the cells of the urban-center mask, once computed
    u_num_centers,      \* the number of labelled centers, once computed
    u_result,           \* what the call returned, once done
    \* ---- one call of vectorize (vectors/vectorize.py)
    z_pc,               \* "idle", "call" or "done"
    z_args,             \* the Dataset passed in and the products it was built from
    z_result,           \* what the call returned or raised, once done
    \* ---- archive fetches, _download_and_process_zip step by step (download.py)
    f_pc,               \* "idle", "call" (with the caller) or "staged" (in the with block)
    f_archive,          \* what the remote end holds for the URL being fetched
    f_staging,          \* the temporary directories that exist
    f_fetches,          \* the number of fetches that have ended
    f_result            \* what the last fetch returned or raised

valVars == <<v_pc, v_args, v_result>>
dlVars == <<request, pc, e_idx, p_idx, intersecting_tiles, tile_idx, datasets,
            attempts, merged_ds, epoch_datasets, all_datasets, fetch_log, outcome>>
trVars == <<t_pc, t_gdf, t_result>>
\* The variables of the operations that work on a finished Dataset.
upVars == <<u_pc, u_args, u_urban_centers, u_num_centers, u_result>>
vzVars == <<z_pc, z_args, z_result>>
ftVars == <<f_pc, f_archive, f_staging, f_fetches, f_result>>
postVars == <<trVars, upVars, vzVars, ftVars>>
vars == <<valVars, dlVars, postVars>>

None == "None"

\* An optional value that is not a string: Python's None, or a value.
Nothing == [isNone |-> TRUE]
Some(v) == [isNone |-> FALSE, v |-> v]

\* What a call produced: a returned value, or a raised exception.  `kind` names
\* the message template of the raise, `listed` the values its message lists.
Return(v) == [ok |-> TRUE, value |-> v]
Raise(exc, kind, listed) == [ok |-> FALSE, exc |-> exc, kind |-> kind, listed |-> listed]
\* The value of a result variable before its call has ended.
NoResult == [ok |-> FALSE, exc |-> "", kind |-> "pending", listed |-> <<>>]

(***************************************************************************)
(* products.py: the catalog                                                *)
(***************************************************************************)
GHS_BUILT_S == <<"GHS", "-", "BUILT", "-", "S">>
GHS_BUILT_H == <<"GHS", "-", "BUILT", "-", "H">>
GHS_BUILT_V == <<"GHS", "-", "BUILT", "-", "V">>
GHS_POP == <<"GHS", "-", "POP">>
GHS_SMOD == <<"GHS", "-", "SMOD">>
GHS_BUILT_C == <<"GHS", "-", "BUILT", "-", "C">>

\* The keys of PRODUCTS in the order the dict literal gives them.
ProductKeys == <<GHS_BUILT_S, GHS_BUILT_H, GHS_BUILT_V, GHS_POP, GHS_SMOD, GHS_BUILT_C>>

\* URL-name templates: "{product}_E{epoch}" and so on, as tokens.
PatternPlain == <<"{product}", "_", "E", "{epoch}">>
PatternNres == <<"{product}", "_", "NRES", "_", "E", "{epoch}">>
PatternClassified == <<"{product}", "_", "{classification}", "_", "E", "{epoch}">>

\* Lines 69-78: the class labels of GHS-SMOD by class code.
SMOD_class_values ==
    (30 :> "Urban Centre grid cell")
    @@ (23 :> "Dense Urban Cluster grid cell")
    @@ (22 :> "Semi-dense Urban Cluster grid cell")
    @@ (21 :> "Suburban or per-urban grid cell")
    @@ (13 :> "Rural cluster grid cell")
    @@ (12 :> "Low Density Rural grid cell")
    @@ (11 :> "Very low density rural grid cell")
    @@ (10 :> "Water grid cell")

\* Lines 79-88: the domain of GHS-SMOD by class code.
SMOD_domains ==
    [code \in {30, 23, 22, 21} |-> "Urban domain"]
    @@ [code \in {13, 12, 11, 10} |-> "Rural domain"]

\* Lines 102-119: the class labels of GHS-BUILT-C by class code.
BUILT_C_class_values ==
    (1 :> "MSZ, open spaces, low vegetation surfaces NDVI <= 0.3")
    @@ (2 :> "MSZ, open spaces, medium vegetation surfaces 0.3 < NDVI <= 0.5")
    @@ (3 :> "MSZ, open spaces, high vegetation surfaces NDVI > 0.5")
    @@ (4 :> "MSZ, open spaces, water surfaces LAND < 0.5")
    @@ (5 :> "MSZ, open spaces, road surfaces")
    @@ (11 :> "MSZ, built spaces, residential, building height <= 3m")
    @@ (12 :> "MSZ, built spaces, residential, 3m < building height <= 6m")
    @@ (13 :> "MSZ, built spaces, residential, 6m < building height <= 15m")
    @@ (14 :> "MSZ, built spaces, residential, 15m < building height <= 30m")
    @@ (15 :> "MSZ, built spaces, residential, building height > 30m")
    @@ (21 :> "MSZ, built spaces, non-residential, building height <= 3m")
    @@ (22 :> "MSZ, built spaces, non-residential, 3m < building height <= 6m")
    @@ (23 :> "MSZ, built spaces, non-residential, 6m < building height <= 15m")
    @@ (24 :> "MSZ, built spaces, non-residential, 15m < building height <= 30m")
    @@ (25 :> "MSZ, built spaces, non-residential, building height > 30m")

PRODUCTS ==
    (GHS_BUILT_S :> [
        epochs |-> <<1975, 1980, 1985, 1990, 1995, 2000, 2015, 2018, 2020, 2025, 2030>>,
        resolutions |-> <<"100m", "1000m">>,
        classifications |-> Some(<<"RES+NRES", "NRES">>),
        default_resolution |-> "100m",
        default_classification |-> "RES+NRES",
        normalized_name |-> <<"GHS", "_", "BUILT", "_", "S">>,
        url_pattern |-> ("RES+NRES" :> PatternPlain) @@ ("NRES" :> PatternNres)])
    @@ (GHS_BUILT_H :> [
        epochs |-> <<2018>>,
        resolutions |-> <<"100m">>,
        classifications |-> Some(<<"AGBH", "ANBH">>),
        default_resolution |-> "100m",
        default_classification |-> "AGBH",
        normalized_name |-> <<"GHS", "_", "BUILT", "_", "H">>,
        url_pattern |-> ("AGBH" :> PatternClassified) @@ ("ANBH" :> PatternClassified)])
    @@ (GHS_BUILT_V :> [
        epochs |-> <<1975, 1980, 1985, 1990, 1995, 2000, 2015, 2020, 2025, 2030>>,
        resolutions |-> <<"100m", "1000m">>,
        classifications |-> Some(<<"RES+NRES", "NRES">>),
        default_resolution |-> "100m",
        default_classification |-> "RES+NRES",
        normalized_name |-> <<"GHS", "_", "BUILT", "_", "V">>,
        url_pattern |-> ("RES+NRES" :> PatternPlain) @@ ("NRES" :> PatternNres)])
    @@ (GHS_POP :> [
        epochs |-> <<1975, 1980, 1985, 1990, 1995, 2000, 2015, 2020, 2025, 2030>>,
        resolutions |-> <<"100m", "1000m">>,
        classifications |-> Nothing,
        default_resolution |-> "100m",
        default_classification |-> None,
        normalized_name |-> <<"GHS", "_", "POP">>,
        url_pattern |-> (None :> PatternPlain)])
    @@ (GHS_SMOD :> [
        epochs |-> <<1975, 1980, 1985, 1990, 1995, 2000, 2015, 2020, 2025, 2030>>,
        resolutions |-> <<"1000m">>,
        classifications |-> Nothing,
        default_resolution |-> "1000m",
        default_classification |-> None,
        normalized_name |-> <<"GHS", "_", "SMOD">>,
        url_pattern |-> (None :> PatternPlain),
        class_values |-> SMOD_class_values,
        domains |-> SMOD_domains])
    @@ (GHS_BUILT_C :> [
        epochs |-> <<2018>>,
        resolutions |-> <<"10m">>,
        classifications |-> Some(<<"MSZ", "FUN">>),
        default_resolution |-> "10m",
        default_classification |-> "MSZ",
        normalized_name |-> <<"GHS", "_", "BUILT", "_", "C">>,
        url_pattern |-> ("MSZ" :> PatternClassified) @@ ("FUN" :> PatternClassified),
        class_values |-> BUILT_C_class_values])

\* The elements of a sequence (Python's `x in list`).
Range(s) == {s[i] : i \in DOMAIN s}

\* map(str, ...) over a list of integers.
MapStr(s) == [i \in DOMAIN s |-> ToString(s[i])]

(***************************************************************************)
(* products.py: get_product_info and validate_product_options             *)
(***************************************************************************)
get_product_info(product) ==
    IF product \notin DOMAIN PRODUCTS
    THEN Raise("ValueError", "UnknownProduct", ProductKeys)
    ELSE Return(PRODUCTS[product])

\* A range test in place of the membership test of line 161.
EpochInSpan(product_info, epoch) ==
    \E i, j \in DOMAIN product_info.epochs :
        product_info.epochs[i] <= epoch /\ epoch <= product_info.epochs[j]

\* Line 161: `epoch not in product_info["epochs"]`, negated.
EpochAvailable(product_info, epoch) == epoch \in Range(product_info.epochs)

\* The resolution as supplied, no default put in its place.
ResolutionAsSupplied(product_info, resolution) == resolution

\* Lines 166-167: the default resolution when none is supplied.
ResolutionOrDefault(product_info, resolution) ==
    IF resolution = None THEN product_info.default_resolution ELSE resolution

\* A supplied classification dropped without complaint.
ClassificationForcedNull(product_info, epoch, res, classification) ==
    Return(<<product_info.normalized_name, epoch, res, None>>)

\* Lines 179-183: the branch of a product whose catalog entry has no
\* classifications.
WithoutClassifications(product_info, epoch, res, classification) ==
    IF classification # None
    THEN Raise("ValueError", "UnsupportedClassification", <<>>)
    ELSE Return(<<product_info.normalized_name, epoch, res, None>>)

\* The statements of validate_product_options after the lookup, in the code's
\* order: epoch, then resolution, then classification.
ValidateOptions(product_info, epoch, resolution, classification) ==
    IF ~EpochAvailable(product_info, epoch)
    THEN Raise("ValueError", "InvalidEpoch", MapStr(product_info.epochs))
    ELSE IF resolution # None /\ resolution \notin Range(product_info.resolutions)
    THEN Raise("ValueError", "InvalidResolution", product_info.resolutions)
    ELSE LET res == ResolutionOrDefault(product_info, resolution)
         IN  IF ~product_info.classifications.isNone
             THEN IF classification = None
                  THEN Return(<<product_info.normalized_name, epoch, res,
                                product_info.default_classification>>)
                  ELSE IF classification \notin Range(product_info.classifications.v)
                  THEN Raise("ValueError", "InvalidClassification",
                             product_info.classifications.v)
                  ELSE Return(<<product_info.normalized_name, epoch, res,
                                classification>>)
             ELSE WithoutClassifications(product_info, epoch, res, classification)

validate_product_options(product, epoch, resolution, classification) ==
    LET info == get_product_info(product)
    IN  IF ~info.ok
        THEN info
        ELSE ValidateOptions(info.value, epoch, resolution, classification)

(***************************************************************************)
(* String helpers over token sequences                                     *)
(***************************************************************************)
\* The text unchanged, nothing replaced.
ReplaceNothing(s, a, b) == s

\* str.replace(a, b) for one-token a and b.
Replace(s, a, b) == [i \in DOMAIN s |-> IF s[i] = a THEN b ELSE s[i]]

\* str.split(sep): the fields between the separators.
RECURSIVE SplitFrom(_, _, _, _)
SplitFrom(s, sep, i, field) ==
    IF i > Len(s) THEN <<field>>
    ELSE IF s[i] = sep THEN <<field>> \o SplitFrom(s, sep, i + 1, <<>>)
    ELSE SplitFrom(s, sep, i + 1, Append(field, s[i]))

Split(s, sep) == SplitFrom(s, sep, 1, <<>>)

\* sep.join(fields).
RECURSIVE Join(_, _)
Join(fields, sep) ==
    IF fields = <<>> THEN <<>>
    ELSE IF Len(fields) = 1 THEN fields[1]
    ELSE fields[1] \o <<sep>> \o Join(Tail(fields), sep)

\* fields[:n]
Take(s, n) == SubSeq(s, 1, IF n < Len(s) THEN n ELSE Len(s))

\* str.format(product=..., epoch=..., classification=...) on a template.
RECURSIVE Format(_, _, _, _)
Format(template, product, epoch, classification) ==
    IF template = <<>> THEN <<>>
    ELSE LET t == Head(template)
             piece == IF t = "{product}" THEN product
                      ELSE IF t = "{epoch}" THEN <<ToString(epoch)>>
                      ELSE IF t = "{classification}" THEN <<classification>>
                      ELSE <<t>>
         IN  piece \o Format(Tail(template), product, epoch, classification)

\* resolution.replace("m", "") on the resolutions of the catalog.
StripM(resolution) ==
    CASE resolution = "10m" -> "10"
      [] resolution = "100m" -> "100"
      [] resolution = "1000m" -> "1000"
      [] OTHER -> resolution

(***************************************************************************)
(* Bounds and inputs of the download model                                 *)
(***************************************************************************)
MaxProducts == 2    \* longest list of products requested
MaxEpochs == 2      \* longest list of epochs requested
MaxBuilds == 4      \* most product/epoch pairs in one request
MaxTifs == 2        \* most raster files in one archive
NumTiles == 3       \* tiles of the tile index

\* Sequences over S of length 0..n.
SeqUpTo(S, n) == UNION {[1..k -> S] : k \in 0..n}

\* The plane is a row of cells; a geometry is the set of cells it covers.  Tile
\* i covers cells 2i-1 and 2i; cell 0 lies outside every tile.
Intersects(g, h) == g \cap h # {}

\* assets/ghsl_tiles.geojson: one row per tile, with its id and boundary.
tiles_gdf ==
    [i \in 1..NumTiles |->
        [tile_id |-> <<"R1", "_", "C" \o ToString(i)>>, geometry |-> {2 * i - 1, 2 * i}]]

\* A region is absent (global), one polygon, or a GeoDataFrame of polygons.
Polygon(g) == [isNone |-> FALSE, isGdf |-> FALSE, geometry |-> <<g>>]
GeoDataFrame(gs) == [isNone |-> FALSE, isGdf |-> TRUE, geometry |-> gs]
NoRegion == [isNone |-> TRUE, isGdf |-> FALSE, geometry |-> <<>>]

RegionInputs ==
    {NoRegion, Polygon({0}), Polygon({3}), GeoDataFrame(<<{2}, {3}>>)}

UnknownProduct == <<"GHS", "-", "LAND">>
ProductInputs == {GHS_BUILT_S, GHS_BUILT_V, GHS_POP, UnknownProduct}
EpochInputs == {2018, 2020}
ResolutionInputs == {None, "1000m"}
ClassificationInputs == {None, "NRES"}
FillValueInputs == {-200, 255}

\* download(products, epoch, ...): products is the list of lines 35-36 (a single
\* name already wrapped); epoch is an int (isList FALSE, one element) or a list.
RequestInputs ==
    {r \in [products : SeqUpTo(ProductInputs, MaxProducts),
            isList : {TRUE},
            epochs : SeqUpTo(EpochInputs, MaxEpochs),
            resolution : ResolutionInputs,
            classification : ClassificationInputs,
            region : RegionInputs] :
        Len(r.products) * Len(r.epochs) <= MaxBuilds}
    \cup
    [products : SeqUpTo(ProductInputs, MaxProducts),
     isList : {FALSE},
     epochs : [1..1 -> EpochInputs],
     resolution : ResolutionInputs,
     classification : ClassificationInputs,
     region : RegionInputs]

\* What the remote end holds for one URL: nothing that can be fetched, or an
\* archive of raster files, each with its own sentinel (_FillValue); `agree`
\* says whether the files' grids agree wherever two of them both hold a value.
ArchiveInputs ==
    {[reachable |-> FALSE, fillvalues |-> <<>>, agree |-> TRUE]}
    \cup [reachable : {TRUE}, fillvalues : SeqUpTo(FillValueInputs, 1), agree : {TRUE}]
    \cup [reachable : {TRUE},
          fillvalues : SeqUpTo(FillValueInputs, MaxTifs) \ SeqUpTo(FillValueInputs, 1),
          agree : BOOLEAN]

(***************************************************************************)
(* download.py: URL construction, tile selection, one archive              *)
(***************************************************************************)
BASE_URL == <<"https://jeodpp.jrc.ec.europa.eu/ftp/jrc-opendata/GHSL">>
Projection == "54009"
Version == <<"V1", "-", "0">>

\* dict.get(key, default)
DictGet(d, key, default) == IF key \in DOMAIN d THEN Some(d[key]) ELSE default

\* Lines 152-165 and 194-207: the catalog entry of the normalized name turned
\* back to its key, the template of the classification (or of the None key),
\* and the template filled in.  A missing template is None, and None.format
\* raises AttributeError.
base_product_name(product, epoch, classification) ==
    LET info == get_product_info(Replace(product, "_", "-"))
    IN  IF ~info.ok THEN info
        ELSE LET url_pattern == DictGet(info.value.url_pattern, classification,
                                        DictGet(info.value.url_pattern, None, Nothing))
             IN  IF url_pattern.isNone
                 THEN Raise("AttributeError", "NoUrlPattern", <<>>)
                 ELSE Return(Format(url_pattern.v, product, epoch, classification))

\* The name shared by the directory and the archive of one product/epoch.
ArchiveStem(base, resolution) ==
    base \o <<"_", "GLOBE", "_", "R2023A", "_", Projection, "_", resolution>>

\* Lines 168-176: the URL of the global archive, as its "/"-separated parts.
GlobalUrl(product, base, resolution) ==
    <<BASE_URL,
      product \o <<"_", "GLOBE", "_", "R2023A">>,
      ArchiveStem(base, resolution),
      Version,
      ArchiveStem(base, resolution) \o <<"_">> \o Replace(Version, "-", "_") \o <<".zip">>>>

\* Lines 234-243: the URL of one tile's archive.
TileUrl(product, base, resolution, tile_id) ==
    <<BASE_URL,
      product \o <<"_", "GLOBE", "_", "R2023A">>,
      ArchiveStem(base, resolution),
      Version,
      <<"tiles">>,
      ArchiveStem(base, resolution) \o <<"_">> \o Replace(Version, "-", "_")
          \o <<"_">> \o tile_id \o <<".zip">>>>

\* The first geometry of a frame in place of the union of all.
union_first(geometries) == geometries[1]

\* GeoSeries.union_all(): the union of the geometries of a frame.
union_all(geometries) == UNION Range(geometries)

\* Lines 213-216: a region that is no GeoDataFrame is wrapped into one.
region_gdf(region) ==
    IF ~region.isGdf THEN GeoDataFrame(<<region.geometry[1]>>) ELSE region

\* tiles_gdf[mask]: the rows of the tile table from row i on whose boundary
\* intersects the area, in the order of the table.
RECURSIVE Rows(_, _)
Rows(area, i) ==
    IF i > Len(tiles_gdf) THEN <<>>
    ELSE (IF Intersects(tiles_gdf[i].geometry, area) THEN <<tiles_gdf[i]>> ELSE <<>>)
         \o Rows(area, i + 1)

\* Lines 218-221: the tiles whose boundary intersects the unioned region.
IntersectingTiles(region) == Rows(union_all(region_gdf(region).geometry), 1)

RECURSIVE Sum(_)
Sum(s) == IF s = <<>> THEN 0 ELSE Head(s) + Sum(Tail(s))

\* Lines 318-320: np.mean(fillvalues) == fillvalues[0]
FillValuesPass(fillvalues) == Sum(fillvalues) = Len(fillvalues) * fillvalues[1]

\* Lines 305-306: the variable name of a raster file, the first two "_" fields
\* of its name.  The rasters of an archive carry the archive's name (the
\* archive naming grammar), here the last URL part without its extension.
var_name(url) ==
    LET file == url[Len(url)]
        tif_name == SubSeq(file, 1, Len(file) - 1)
    IN  Join(Take(Split(tif_name, "_"), 2), "_")

\* Lines 273-327 on what the remote end holds for the URL.  A grid is recorded
\* by its variables and the archives it was read from.
download_and_process_zip(url, region, archive) ==
    IF ~archive.reachable
    THEN Raise("URLError", "FetchFailed", <<>>)
    ELSE IF archive.fillvalues = <<>>
    THEN Raise("ValueError", "NoTifFiles", <<>>)
    ELSE IF ~FillValuesPass(archive.fillvalues)
    THEN Raise("AssertionError", "FillValuesChange", <<>>)
    ELSE IF Len(archive.fillvalues) > 1 /\ ~archive.agree
    THEN Raise("MergeError", "ConflictingValues", <<>>)
    ELSE Return([data_vars |-> {var_name(url)}, sources |-> {url}])

\* Lines 146-179.  The call of line 179 passes one argument to a function of
\* two required parameters: Python raises TypeError before the body runs.
download_global(product, epoch, resolution, classification) ==
    LET base == base_product_name(product, epoch, classification)
    IN  IF ~base.ok THEN base
        ELSE Raise("TypeError", "MissingArgument", <<"region_gdf">>)

(***************************************************************************)
(* download.py: datasets                                                   *)
(***************************************************************************)
\* xr.merge over the grids of the tiles of one product/epoch: tiles do not
\* overlap, so the grids never conflict.
merge_tiles(dss) ==
    [data_vars |-> UNION {dss[i].data_vars : i \in DOMAIN dss},
     sources |-> UNION {dss[i].sources : i \in DOMAIN dss}]

\* Lines 48-49 and 76-77: f"{e}-01-01" and expand_dims.  In download() a
\* dataset is recorded by its variables and its time axis.
time_coord(e) == ToString(e) \o "-01-01"
expand_dims(ds, coord) == [data_vars |-> ds.data_vars, time |-> <<coord>>]

\* Two of the datasets hold a variable of the same name.
NameClash(dss) ==
    \E i, j \in DOMAIN dss : i < j /\ dss[i].data_vars \cap dss[j].data_vars # {}

\* xr.merge over the products of one epoch (lines 54 and 82).  All of them
\* carry the same single time coordinate.  Variables of one name are merged
\* into one when their grids agree, and raise MergeError when they do not.
merge_products(dss, agree) ==
    IF NameClash(dss) /\ ~agree
    THEN Raise("MergeError", "ConflictingValues", <<>>)
    ELSE Return([data_vars |-> UNION {dss[i].data_vars : i \in DOMAIN dss},
                 time |-> dss[1].time])

\* A concatenation that keeps one coordinate per distinct date.
RECURSIVE Unique(_)
Unique(s) ==
    IF s = <<>> THEN <<>>
    ELSE LET front == Unique(SubSeq(s, 1, Len(s) - 1))
         IN  IF s[Len(s)] \in Range(front) THEN front ELSE Append(front, s[Len(s)])

concat_unique(dss) ==
    [data_vars |-> dss[1].data_vars,
     time |-> Unique([i \in DOMAIN dss |-> dss[i].time[1]])]

\* xr.concat(all_datasets, dim="time") (line 63): the time axes one after the
\* other, nothing sorted and nothing dropped.
RECURSIVE ConcatTime(_)
ConcatTime(dss) == IF dss = <<>> THEN <<>> ELSE Head(dss).time \o ConcatTime(Tail(dss))

concat_time(dss) == [data_vars |-> dss[1].data_vars, time |-> ConcatTime(dss)]

(***************************************************************************)
(* download.py: one download() request, step by step                       *)
(***************************************************************************)
NoDataset == [data_vars |-> {}, sources |-> {}]

ValIdle == v_pc = "idle" /\ v_args = <<>> /\ v_result = NoResult

\* No call of smod_year_of_transition is running.
TrIdle == t_pc = "idle" /\ t_gdf = <<>> /\ t_result = NoResult

\* No call of monocentric_polycentric_pattern is running.
UpIdle ==
    /\ u_pc = "idle"
    /\ u_args = <<>>
    /\ u_urban_centers = {}
    /\ u_num_centers = 0
    /\ u_result = NoResult

\* No call of vectorize is running.
VzIdle == z_pc = "idle" /\ z_args = <<>> /\ z_result = NoResult

\* No archive fetch is followed step by step.
FtIdle ==
    /\ f_pc = "idle"
    /\ f_archive = <<>>
    /\ f_staging = {}
    /\ f_fetches = 0
    /\ f_result = NoResult

\* None of the operations on a finished Dataset is running.
PostIdle == TrIdle /\ UpIdle /\ VzIdle /\ FtIdle

Init ==
    /\ ValIdle
    /\ PostIdle
    /\ request \in RequestInputs
    /\ pc = "loop"
    /\ e_idx = 1
    /\ p_idx = 1
    /\ intersecting_tiles = <<>>
    /\ tile_idx = 1
    /\ datasets = <<>>
    /\ attempts = <<>>
    /\ merged_ds = NoDataset
    /\ epoch_datasets = <<>>
    /\ all_datasets = <<>>
    /\ fetch_log = <<>>
    /\ outcome = NoResult

\* An exception leaves download(): nothing catches it there.
Propagate(exception) ==
    /\ pc' = "raised"
    /\ outcome' = exception

\* The validated request of the product and epoch at hand (lines 109-111).
CurrentValidation ==
    validate_product_options(request.products[p_idx], request.epochs[e_idx],
                             request.resolution, request.classification)

\* download_single up to the first fetch (lines 108-143, 146-179, 194-229):
\* validation; then, without a region, the global download, and with one, the
\* selection of the tiles.
DownloadSingle ==
    /\ pc = "loop"
    /\ e_idx <= Len(request.epochs)
    /\ p_idx <= Len(request.products)
    /\ LET valid == CurrentValidation
       IN  IF ~valid.ok
           THEN /\ Propagate(valid)
                /\ UNCHANGED <<intersecting_tiles, tile_idx, datasets, attempts>>
           ELSE LET product == valid.value[1]
                    epoch == valid.value[2]
                    resolution_value == StripM(valid.value[3])
                    classification == valid.value[4]
                IN  IF request.region.isNone
                    THEN /\ Propagate(download_global(product, epoch, resolution_value,
                                                      classification))
                         /\ UNCHANGED <<intersecting_tiles, tile_idx, datasets, attempts>>
                    ELSE LET base == base_product_name(product, epoch, classification)
                             tiles == IntersectingTiles(request.region)
                         IN  IF ~base.ok
                             THEN /\ Propagate(base)
                                  /\ UNCHANGED <<intersecting_tiles, tile_idx, datasets,
                                                 attempts>>
                             ELSE IF Len(tiles) = 0
                             THEN /\ Propagate(Raise("ValueError", "NoIntersectingTiles",
                                                     <<>>))
                                  /\ UNCHANGED <<intersecting_tiles, tile_idx, datasets,
                                                 attempts>>
                             ELSE /\ intersecting_tiles' = tiles
                                  /\ tile_idx' = 1
                                  /\ datasets' = <<>>
                                  /\ attempts' = <<>>
                                  /\ pc' = "tiles"
                                  /\ UNCHANGED outcome
    /\ UNCHANGED <<request, e_idx, p_idx, merged_ds, epoch_datasets, all_datasets,
                   fetch_log, valVars, postVars>>

\* Lines 249-253: the grid of a fetched tile joins the list; a tile whose
\* fetch raised is left out.
CollectTile(dss, result) == IF result.ok THEN Append(dss, result.value) ELSE dss

\* A loop that stops at the first tile whose fetch raised.
AfterTileAbort(idx, result) ==
    IF result.ok THEN idx + 1 ELSE Len(intersecting_tiles) + 1

\* Line 230: the loop goes on to the next row whatever the fetch did.
AfterTile(idx, result) == idx + 1

\* A test that fails the build as soon as one tile is missing.
SomeTileMissing(dss) == Len(dss) < Len(intersecting_tiles)

\* Line 255: `if not datasets`.
NoTileSucceeded(dss) == dss = <<>>

\* One iteration of the tile loop (lines 230-253): the URL of the tile, the
\* fetch, and the try/except around it.
FetchTile ==
    /\ pc = "tiles"
    /\ tile_idx <= Len(intersecting_tiles)
    /\ LET valid == CurrentValidation.value
           base == base_product_name(valid[1], valid[2], valid[4]).value
           tile_id == intersecting_tiles[tile_idx].tile_id
           url == TileUrl(valid[1], base, StripM(valid[3]), tile_id)
       IN  \E archive \in ArchiveInputs :
             LET result == download_and_process_zip(url, region_gdf(request.region),
                                                    archive)
             IN  /\ fetch_log' = Append(fetch_log, url)
                 /\ datasets' = CollectTile(datasets, result)
                 /\ attempts' = Append(attempts,
                        [tile_id |-> tile_id, url |-> url, ok |-> result.ok,
                         kind |-> IF result.ok THEN "ok" ELSE result.kind,
                         fill_value |-> IF result.ok THEN Some(archive.fillvalues[1])
                                        ELSE Nothing])
                 /\ tile_idx' = AfterTile(tile_idx, result)
    /\ UNCHANGED <<request, pc, e_idx, p_idx, intersecting_tiles, merged_ds,
                   epoch_datasets, all_datasets, outcome, valVars, postVars>>

\* The end of _download_tiles (lines 255-264): NoDataAvailable, or the merged
\* grid is returned to download_single and from there to download().
FinishTiles ==
    /\ pc = "tiles"
    /\ tile_idx > Len(intersecting_tiles)
    /\ IF NoTileSucceeded(datasets)
       THEN /\ Propagate(Raise("ValueError", "NoDataAvailable", <<>>))
            /\ UNCHANGED merged_ds
       ELSE /\ merged_ds' = merge_tiles(datasets)
            /\ pc' = "built"
            /\ UNCHANGED outcome
    /\ UNCHANGED <<request, e_idx, p_idx, intersecting_tiles, tile_idx, datasets,
                   attempts, epoch_datasets, all_datasets, fetch_log, valVars, postVars>>

\* Back in download() (lines 47-50, 76-78): the time coordinate and the append.
\* The locals of the finished _download_tiles call are gone.
AppendDataset ==
    /\ pc = "built"
    /\ epoch_datasets' =
         Append(epoch_datasets,
                expand_dims(merged_ds, time_coord(request.epochs[e_idx])))
    /\ p_idx' = p_idx + 1
    /\ pc' = "loop"
    /\ intersecting_tiles' = <<>>
    /\ tile_idx' = 1
    /\ datasets' = <<>>
    /\ attempts' = <<>>
    /\ merged_ds' = NoDataset
    /\ UNCHANGED <<request, e_idx, all_datasets, fetch_log, outcome, valVars, postVars>>

\* After the products of one epoch (lines 52-59, 80-87): the merge of their
\* datasets; with a list of epochs the loop goes on, with one epoch the merged
\* dataset is returned.
MergeEpoch ==
    /\ pc = "loop"
    /\ e_idx <= Len(request.epochs)
    /\ p_idx > Len(request.products)
    /\ IF epoch_datasets = <<>>
       THEN /\ Propagate(Raise("ValueError", "NoDatasetForEpoch", <<>>))
            /\ UNCHANGED <<e_idx, p_idx, epoch_datasets, all_datasets>>
       ELSE \E agree \in BOOLEAN :
              LET merged == merge_products(epoch_datasets, agree)
              IN  IF ~merged.ok
                  THEN /\ Propagate(merged)
                       /\ UNCHANGED <<e_idx, p_idx, epoch_datasets, all_datasets>>
                  ELSE IF request.isList
                  THEN /\ all_datasets' = Append(all_datasets, merged.value)
                       /\ e_idx' = e_idx + 1
                       /\ p_idx' = 1
                       /\ epoch_datasets' = <<>>
                       /\ UNCHANGED <<pc, outcome>>
                  ELSE /\ pc' = "returned"
                       /\ outcome' = Return(merged.value)
                       /\ UNCHANGED <<e_idx, p_idx, epoch_datasets, all_datasets>>
    /\ UNCHANGED <<request, intersecting_tiles, tile_idx, datasets, attempts, merged_ds,
                   fetch_log, valVars, postVars>>

\* After the last epoch of a list (lines 61-68).
ConcatEpochs ==
    /\ pc = "loop"
    /\ request.isList
    /\ e_idx > Len(request.epochs)
    /\ IF all_datasets = <<>>
       THEN Propagate(Raise("ValueError", "NoDatasetForAnyEpoch", <<>>))
       ELSE /\ pc' = "returned"
            /\ outcome' = Return(concat_time(all_datasets))
    /\ UNCHANGED <<request, e_idx, p_idx, intersecting_tiles, tile_idx, datasets,
                   attempts, merged_ds, epoch_datasets, all_datasets, fetch_log, valVars, postVars>>

Next ==
    \/ DownloadSingle
    \/ FetchTile
    \/ FinishTiles
    \/ AppendDataset
    \/ MergeEpoch
    \/ ConcatEpochs

Spec == Init /\ [][Next]_vars

(***************************************************************************)
(* validate_product_options on its own, over the whole catalog             *)
(***************************************************************************)
AllCatalogEpochs == UNION {Range(PRODUCTS[p].epochs) : p \in DOMAIN PRODUCTS}

ValidateInputs ==
    [product : DOMAIN PRODUCTS \cup {UnknownProduct},
     epoch : AllCatalogEpochs \cup {2010},
     resolution : {None, "10m", "100m", "1000m", "30m"},
     classification : {None, "RES+NRES", "NRES", "AGBH", "ANBH", "MSZ", "FUN", "XYZ"}]

\* No download() request is running.
DlIdle ==
    /\ request = [products |-> <<>>, isList |-> TRUE, epochs |-> <<>>,
                  resolution |-> None, classification |-> None, region |-> NoRegion]
    /\ pc = "idle"
    /\ e_idx = 1
    /\ p_idx = 1
    /\ intersecting_tiles = <<>>
    /\ tile_idx = 1
    /\ datasets = <<>>
    /\ attempts = <<>>
    /\ merged_ds = NoDataset
    /\ epoch_datasets = <<>>
    /\ all_datasets = <<>>
    /\ fetch_log = <<>>
    /\ outcome = NoResult

InitValidate ==
    /\ v_pc = "call"
    /\ v_args \in ValidateInputs
    /\ v_result = NoResult
    /\ DlIdle
    /\ PostIdle

ValidateCall ==
    /\ v_pc = "call"
    /\ v_result' = validate_product_options(v_args.product, v_args.epoch,
                                            v_args.resolution, v_args.classification)
    /\ v_pc' = "done"
    /\ UNCHANGED <<v_args, dlVars, postVars>>

NextValidate == ValidateCall

SpecValidate == InitValidate /\ [][NextValidate]_vars

(***************************************************************************)
(* Dates: pandas' to_datetime and strftime('%Y-%m-%d')                     *)
(***************************************************************************)
\* A day or month number in two digits.
Pad2(n) == IF n < 10 THEN "0" \o ToString(n) ELSE ToString(n)

\* strftime('%Y-%m-%d') of a timestamp.
strftime(ts) == ToString(ts.year) \o "-" \o Pad2(ts.month) \o "-" \o Pad2(ts.day)

\* The timestamps the date strings of the model stand for: the first day of
\* January or July of a five-year step or of a catalog epoch.
Timestamps == [year : AllCatalogEpochs \cup {2005, 2010}, month : {1, 7}, day : {1}]

\* The date string of every timestamp.
DateTable == [ts \in Timestamps |-> strftime(ts)]

\* The timestamp every date string is the text of.
ParseTable ==
    [s \in {DateTable[ts] : ts \in Timestamps} |->
        CHOOSE ts \in Timestamps : DateTable[ts] = s]

\* pd.to_datetime of a date string.
to_datetime(s) == ParseTable[s]

(***************************************************************************)
(* vectors/smod_functions.py: smod_year_of_transition                      *)
(***************************************************************************)
UrbanCentre == "Urban Centre grid cell"

\* Every row, whatever its category.
all_rows(gdf) == gdf

\* Line 8: the rows whose GHS_SMOD attribute is the urban-centre label.
urban_rows(gdf) == SelectSeq(gdf, LAMBDA row : row.GHS_SMOD = UrbanCentre)

\* Line 9: the calendar year of each row's date, as a new column.
with_year(gdf) ==
    [i \in DOMAIN gdf |->
        [GHS_SMOD |-> gdf[i].GHS_SMOD, date |-> gdf[i].date,
         geometry |-> gdf[i].geometry, year |-> to_datetime(gdf[i].date).year]]

\* The members of a set of numbers, in ascending order.
RECURSIVE Ascending(_)
Ascending(S) ==
    IF S = {} THEN <<>>
    ELSE LET least == CHOOSE x \in S : \A y \in S : x <= y
         IN  <<least>> \o Ascending(S \ {least})

\* The union of a set of geometries.
unary_union(gs) == UNION gs

\* The rows left one per input row, not grouped.
no_dissolve(gdf) ==
    [i \in DOMAIN gdf |-> [year |-> gdf[i].year, geometry |-> gdf[i].geometry]]

\* Line 10: dissolve(by='year'): one row per year, indexed by the year, whose
\* geometry is the union of the geometries of the year's rows; the groups come
\* in the order of their keys.
dissolve(gdf) ==
    LET keys == Ascending({gdf[i].year : i \in DOMAIN gdf})
    IN  [k \in DOMAIN keys |->
            [year |-> keys[k],
             geometry |-> unary_union({gdf[i].geometry :
                                         i \in {j \in DOMAIN gdf : gdf[j].year = keys[k]}})]]

\* Line 11: sort_index(): the rows in ascending order of the year index, rows
\* of one year in their given order.
RECURSIVE sort_index(_)
sort_index(yearly) ==
    IF yearly = <<>> THEN <<>>
    ELSE LET least == CHOOSE y \in {yearly[i].year : i \in DOMAIN yearly} :
                          \A i \in DOMAIN yearly : y <= yearly[i].year
         IN  SelectSeq(yearly, LAMBDA row : row.year = least)
             \o sort_index(SelectSeq(yearly, LAMBDA row : row.year # least))

\* The geometry kept whole.
no_difference(current_geom, past_union) == current_geom

\* Line 20: current_geom.difference(past_union).
difference(current_geom, past_union) == current_geom \ past_union

\* The running union replaced by the year just processed.
latest_only(past_union, current_geom) == Some(current_geom)

\* Line 25: the running union after a year: the year's geometry the first
\* time, the union with it afterwards.
next_past_union(past_union, current_geom) ==
    IF past_union.isNone THEN Some(current_geom)
    ELSE Some(past_union.v \cup current_geom)

\* Lines 16-25: the loop over the yearly rows from row i on, past_union being
\* the running union on entry (Nothing before the first row).
RECURSIVE iterrows(_, _, _)
iterrows(yearly, i, past_union) ==
    IF i > Len(yearly) THEN <<>>
    ELSE LET current_geom == yearly[i].geometry
             new_geom == IF ~past_union.isNone
                         THEN difference(current_geom, past_union.v)
                         ELSE current_geom
         IN  <<[year |-> yearly[i].year, geometry |-> new_geom]>>
             \o iterrows(yearly, i + 1, next_past_union(past_union, current_geom))

\* Lines 8-25: the records collected in new_geometries.
new_geometries(gdf) ==
    iterrows(sort_index(dissolve(with_year(urban_rows(gdf)))), 1, Nothing)

\* Line 27: gpd.GeoDataFrame(new_geometries, crs=gdf.crs).  From a non-empty
\* list the frame has the records as its rows.  From an empty list the frame
\* has no geometry column to carry the crs: geopandas builds either return the
\* empty frame or raise ValueError.
GeoDataFrameOf(records) ==
    IF records # <<>> THEN {Return(records)}
    ELSE {Return(records), Raise("ValueError", "NoGeometryColumn", <<>>)}

\* The outcomes of smod_year_of_transition(gdf).
smod_year_of_transition(gdf) == GeoDataFrameOf(new_geometries(gdf))

MaxRows == 3        \* rows of the layer passed to smod_year_of_transition

CategoryInputs == {UrbanCentre, "Dense Urban Cluster grid cell"}
DateInputs == {"2000-01-01", "2000-07-01", "2010-01-01", "2020-01-01"}
GeometryInputs == {{1, 2}, {2, 3}}
LayerInputs ==
    SeqUpTo([GHS_SMOD : CategoryInputs, date : DateInputs, geometry : GeometryInputs],
            MaxRows)

InitTransition ==
    /\ t_pc = "call"
    /\ t_gdf \in LayerInputs
    /\ t_result = NoResult
    /\ ValIdle
    /\ DlIdle
    /\ UpIdle
    /\ VzIdle
    /\ FtIdle

TransitionCall ==
    /\ t_pc = "call"
    /\ t_result' \in smod_year_of_transition(t_gdf)
    /\ t_pc' = "done"
    /\ UNCHANGED <<t_gdf, valVars, dlVars, upVars, vzVars, ftVars>>

NextTransition == TransitionCall

SpecTransition == InitTransition /\ [][NextTransition]_vars

(***************************************************************************)
(* metrics/pixelwise.py: population_density and                            *)
(* monocentric_polycentric_pattern                                         *)
(***************************************************************************)
\* Line 9: pixel_area_km2 = 0.01, so dividing by it multiplies by 100.
PixelsPerKm2 == 100

\* The grid as passed in, no conversion made.
density_as_given(pop_data) == pop_data

\* Lines 8-29: the count of every cell divided by the pixel area.
population_density(pop_data) ==
    [c \in DOMAIN pop_data |-> pop_data[c] * PixelsPerKm2]

\* Line 403: density >= density_threshold, as the set of cells where it holds.
urban_centers_of(density, density_threshold) ==
    {c \in DOMAIN density : density[c] >= density_threshold}

Abs(n) == IF n < 0 THEN -n ELSE n

\* Two distinct cells that touch by a side or a corner: the neighbourhood
\* measure.label uses on a two-dimensional array when no connectivity is given.
Adjacent(a, b) == a # b /\ Abs(a[1] - b[1]) <= 1 /\ Abs(a[2] - b[2]) <= 1

\* The cells of the mask connected to a region through adjacent mask cells.
RECURSIVE Grow(_, _)
Grow(mask, region) ==
    LET next == region \cup {c \in mask : \E d \in region : Adjacent(c, d)}
    IN  IF next = region THEN region ELSE Grow(mask, next)

\* Line 406: measure.label(urban_centers): the connected components of the
\* mask.  The label numbers only name the components and are left out.
label(mask) == {Grow(mask, {c}) : c \in mask}

\* The least member of a non-empty set of numbers.
Min(S) == CHOOSE x \in S : \A y \in S : x <= y

\* Line 413: ndimage.distance_transform_edt(~center_mask) at cell c: the
\* Euclidean distance from c to the nearest cell of the center, kept squared.
sq_distance(center_mask, c) ==
    Min({(c[1] - d[1]) * (c[1] - d[1]) + (c[2] - d[2]) * (c[2] - d[2]) : d \in center_mask})

\* A distance at or under the radius.
within_or_at(sq, search_radius) ==
    search_radius >= 0 /\ sq <= search_radius * search_radius

\* Lines 434, 438: distance < search_radius, on the squared distance.
within(sq, search_radius) ==
    search_radius > 0 /\ sq < search_radius * search_radius

\* The grid handed back whole.
copy_like(pop_data) == pop_data

\* Line 417: xr.zeros_like(pop_data).
zeros_like(pop_data) == [c \in DOMAIN pop_data |-> 0]

\* Lines 423-443: the class of every cell, given the centers.
classification(pop_data, centers, search_radius) ==
    [c \in DOMAIN pop_data |->
        LET min_distance == Min({sq_distance(center, c) : center \in centers})
            centers_in_radius ==
                Cardinality({center \in centers :
                                within(sq_distance(center, c), search_radius)})
        IN  IF centers_in_radius > 1 THEN 2
            ELSE IF within(min_distance, search_radius) THEN 1
            ELSE 0]

\* Lines 399-443: the locals urban_centers and num_centers and the grid
\* returned.
monocentric_polycentric_pattern(pop_data, density_threshold, search_radius) ==
    LET density == population_density(pop_data)
        urban_centers == urban_centers_of(density, density_threshold)
        centers == label(urban_centers)
    IN  [urban_centers |-> urban_centers,
         num_centers |-> Cardinality(centers),
         result |-> IF centers = {} THEN zeros_like(pop_data)
                    ELSE classification(pop_data, centers, search_radius)]

GridH == 2          \* rows of the population grid
GridW == 3          \* columns of the population grid

PopulationInputs == {0, 3}
ThresholdInputs == {0, 300, 301}
RadiusInputs == {0, 1, 2}
PatternInputs ==
    [pop_data : [(1..GridH) \X (1..GridW) -> PopulationInputs],
     density_threshold : ThresholdInputs,
     search_radius : RadiusInputs]

InitPattern ==
    /\ u_pc = "call"
    /\ u_args \in PatternInputs
    /\ u_urban_centers = {}
    /\ u_num_centers = 0
    /\ u_result = NoResult
    /\ ValIdle
    /\ DlIdle
    /\ TrIdle
    /\ VzIdle
    /\ FtIdle

PatternCall ==
    /\ u_pc = "call"
    /\ LET call == monocentric_polycentric_pattern(u_args.pop_data,
                       u_args.density_threshold, u_args.search_radius)
       IN  /\ u_urban_centers' = call.urban_centers
           /\ u_num_centers' = call.num_centers
           /\ u_result' = Return(call.result)
    /\ u_pc' = "done"
    /\ UNCHANGED <<u_args, valVars, dlVars, trVars, vzVars, ftVars>>

NextPattern == PatternCall

SpecPattern == InitPattern /\ [][NextPattern]_vars

(***************************************************************************)
(* vectors/vectorize.py: vectorize and apply_classifications               *)
(***************************************************************************)
\* An attribute value: a number, or a text.
Number(x) == [float |-> x]
Text(s) == [str |-> s]

\* The variable name the mosaic pipeline gives the grid of a catalog product:
\* the name download_and_process_zip takes from the product's archive.
PipelineVariable(product) ==
    LET valid == validate_product_options(product, PRODUCTS[product].epochs[1],
                                          None, None).value
        base == base_product_name(valid[1], valid[2], valid[4]).value
    IN  var_name(TileUrl(valid[1], base, StripM(valid[3]), tiles_gdf[1].tile_id))

\* The cells of the run of equal values that starts at cell s of a grid.
RunFrom(grid, s) == {j \in s..Len(grid) : \A k \in s..j : grid[k] = grid[s]}

\* geocube_vectorize on a two-dimensional grid, here one row of cells: one row
\* per connected region of equal value, with the value as its attribute and no
\* other column.
shapes(grid) ==
    LET starts == Ascending({i \in DOMAIN grid : i = 1 \/ grid[i - 1] # grid[i]})
    IN  [k \in DOMAIN starts |->
            [attr |-> Number(grid[starts[k]]), geometry |-> RunFrom(grid, starts[k]),
             date |-> Nothing, class_value |-> Nothing, domain |-> Nothing]]

\* The rows of several frames, one frame after the other.
RECURSIVE concat(_)
concat(gdfs) == IF gdfs = <<>> THEN <<>> ELSE Head(gdfs) \o concat(Tail(gdfs))

\* Lines 38 and 56: geocube_vectorize(....squeeze().astype(float)) on the
\* grids selected.  One grid is two-dimensional after squeeze().  Several
\* grids, or none, keep their time dimension, and what the polygonizer does
\* with such a stack is the build's: it rejects it, reads its first grid (no
\* polygon when there is none), or reads them all (stacked).
geocube_vectorize(selected, stacked) ==
    IF Len(selected) = 1 THEN Return(shapes(selected[1]))
    ELSE CASE stacked = "raise" -> Raise("ValueError", "NotTwoDimensional", <<>>)
           [] stacked = "first" ->
                IF selected = <<>> THEN Return(<<>>) ELSE Return(shapes(selected[1]))
           [] stacked = "all" -> Return(concat([i \in DOMAIN selected |-> shapes(selected[i])]))

\* Line 35: data.sel(time=time_val): the grids whose time coordinate equals
\* the label, in axis order.
sel(data, time_val) ==
    LET hits == Ascending({i \in DOMAIN data.time.v : data.time.v[i] = time_val})
    IN  [k \in DOMAIN hits |-> data.grids[hits[k]]]

\* Lines 41-42: the date column, the same text on every row.
with_date(gdf, date_str) ==
    [i \in DOMAIN gdf |-> [gdf[i] EXCEPT !.date = Some(date_str)]]

\* A lookup that never finds the table.
InfoGetNothing(info, field) == <<>>

\* info.get(field, {}) on a catalog entry.
InfoGet(info, field) == IF field \in DOMAIN info THEN info[field] ELSE <<>>

\* Lines 62-82: class_value keeps the number, the attribute becomes the class
\* label and domain the domain label, each with its fallback text.
apply_smod_classification(gdf) ==
    LET smod_info == get_product_info(GHS_SMOD).value
        class_mapping == InfoGet(smod_info, "class_values")
        domain_mapping == InfoGet(smod_info, "domains")
    IN  [i \in DOMAIN gdf |->
            LET x == gdf[i].attr.float
            IN  [gdf[i] EXCEPT
                    !.class_value = Some(x),
                    !.attr = Text(DictGet(class_mapping, x,
                                          Some("Unknown class " \o ToString(x))).v),
                    !.domain = Some(DictGet(domain_mapping, x,
                                            Some("Unknown domain")).v)]]

\* Lines 84-100: class_value keeps the number and the attribute becomes the
\* class label; no domain.
apply_built_c_classification(gdf) ==
    LET built_c_info == get_product_info(GHS_BUILT_C).value
        class_mapping == InfoGet(built_c_info, "class_values")
    IN  [i \in DOMAIN gdf |->
            LET x == gdf[i].attr.float
            IN  [gdf[i] EXCEPT
                    !.class_value = Some(x),
                    !.attr = Text(DictGet(class_mapping, x,
                                          Some("Unknown class " \o ToString(x))).v)]]

\* Lines 102-116.
apply_classifications(gdf, name) ==
    LET smod == IF name = <<"GHS", "_", "SMOD">>
                THEN apply_smod_classification(gdf) ELSE gdf
    IN  IF name = <<"GHS", "_", "BUILT", "_", "C">>
        THEN apply_built_c_classification(smod) ELSE smod

\* Lines 33-46: the loop over data.time.values from index i on: the frames
\* appended to gdfs, or the exception that ended the loop.
RECURSIVE time_slices(_, _, _, _)
time_slices(data, name, stacked, i) ==
    IF i > Len(data.time.v) THEN Return(<<>>)
    ELSE LET time_val == data.time.v[i]
             gdf == geocube_vectorize(sel(data, time_val), stacked)
         IN  IF ~gdf.ok THEN gdf
             ELSE LET date_str == strftime(to_datetime(time_val))
                      dated == apply_classifications(with_date(gdf.value, date_str), name)
                      rest == time_slices(data, name, stacked, i + 1)
                  IN  IF ~rest.ok THEN rest ELSE Return(<<dated>> \o rest.value)

\* Lines 7-60.  A frame is recorded by the name of its attribute column and
\* its rows.
vectorize(data, stacked) ==
    IF Cardinality(data.data_vars) # 1
    THEN Raise("ValueError", "UnpackVariables", <<>>)
    ELSE LET only == CHOOSE v \in data.data_vars : TRUE
             name == IF only = <<"GHS", "_", "BUILT">>
                     THEN <<"GHS", "_", "BUILT", "_", "C">> ELSE only
         IN  IF ~data.time.isNone /\ Len(data.time.v) > 1
             THEN LET gdfs == time_slices(data, name, stacked, 1)
                  IN  IF ~gdfs.ok THEN gdfs
                      ELSE IF gdfs.value # <<>>
                      THEN Return([name |-> name, rows |-> concat(gdfs.value)])
                      ELSE Raise("ValueError", "EmptyVectorization", <<>>)
             ELSE LET gdf == geocube_vectorize(data.grids, stacked)
                  IN  IF ~gdf.ok THEN gdf
                      ELSE Return([name |-> name,
                                   rows |-> apply_classifications(gdf.value, name)])

MaxSlices == 2      \* longest time axis of the Dataset passed to vectorize
SliceCells == 2     \* cells of one grid of the Dataset

TimeInputs == {"2015-01-01", "2020-01-01"}
CellValueInputs == {1, 30}
StackedInputs == {"raise", "first", "all"}
ProductListInputs == {<<p>> : p \in DOMAIN PRODUCTS} \cup {<<GHS_POP, GHS_SMOD>>}

\* The time axes: none, or one coordinate per grid, repeats included as
\* download() keeps them; an axis of no coordinate is what selecting no epoch
\* of a Dataset leaves.
TimeAxisInputs ==
    {Nothing} \cup {Some(t) : t \in SeqUpTo(TimeInputs, MaxSlices)}

\* The Datasets of the products: one variable per variable name of the mosaic
\* pipeline, and one grid per time coordinate (one without a time axis).
DatasetsOf(products) ==
    {[data_vars |-> {PipelineVariable(products[i]) : i \in DOMAIN products},
      time |-> t, grids |-> g] :
        <<t, g>> \in {tg \in TimeAxisInputs
                              \X SeqUpTo([1..SliceCells -> CellValueInputs], MaxSlices) :
                        Len(tg[2]) = IF tg[1].isNone THEN 1 ELSE Len(tg[1].v)}}

VectorizeInputs ==
    UNION {{[products |-> ps, data |-> d] : d \in DatasetsOf(ps)} :
              ps \in ProductListInputs}

InitVectorize ==
    /\ z_pc = "call"
    /\ z_args \in VectorizeInputs
    /\ z_result = NoResult
    /\ ValIdle
    /\ DlIdle
    /\ TrIdle
    /\ UpIdle
    /\ FtIdle

VectorizeCall ==
    /\ z_pc = "call"
    /\ \E stacked \in StackedInputs : z_result' = vectorize(z_args.data, stacked)
    /\ z_pc' = "done"
    /\ UNCHANGED <<z_args, valVars, dlVars, trVars, upVars, ftVars>>

NextVectorize == VectorizeCall

SpecVectorize == InitVectorize /\ [][NextVectorize]_vars

(***************************************************************************)
(* download.py: _download_and_process_zip, with its temporary directory    *)
(***************************************************************************)
MaxFetches == 2     \* archive fetches followed one after the other
MaxFills == 3       \* most raster files in an archive fetched step by step

SentinelInputs == {-1, 0, 1}

\* What the remote end holds for the URL: as ArchiveInputs, and whether what is
\* fetched opens as a zip archive.
StagedArchiveInputs ==
    [reachable : BOOLEAN, extractable : BOOLEAN,
     fillvalues : SeqUpTo(SentinelInputs, MaxFills), agree : BOOLEAN]

NoArchive ==
    [reachable |-> FALSE, extractable |-> FALSE, fillvalues |-> <<>>, agree |-> TRUE]

\* The URL of the archive fetched: a tile of GHS-POP.
StagedUrl ==
    LET valid == validate_product_options(GHS_POP, PRODUCTS[GHS_POP].epochs[1],
                                          None, None).value
        base == base_product_name(valid[1], valid[2], valid[4]).value
    IN  TileUrl(valid[1], base, StripM(valid[3]), tiles_gdf[1].tile_id)

\* Lines 274-327, the body of the with block: urlretrieve raises for a URL
\* that cannot be fetched (277), ZipFile or extractall for a file that is no
\* zip archive (283-284); the rest is download_and_process_zip.
staged_body(url, region, archive) ==
    IF archive.reachable /\ ~archive.extractable
    THEN Raise("BadZipFile", "ExtractFailed", <<>>)
    ELSE download_and_process_zip(url, region, archive)

\* A directory removed only when the body returned.
cleanup_on_success(staging, temp_dir, result) ==
    IF result.ok THEN staging \ {temp_dir} ELSE staging

\* Line 273: TemporaryDirectory.__exit__ removes the directory however the
\* body of the with block ended.
cleanup(staging, temp_dir, result) == staging \ {temp_dir}

InitFetch ==
    /\ f_pc = "call"
    /\ f_archive = NoArchive
    /\ f_staging = {}
    /\ f_fetches = 0
    /\ f_result = NoResult
    /\ ValIdle
    /\ DlIdle
    /\ TrIdle
    /\ UpIdle
    /\ VzIdle

\* Line 273: entering the with block creates the temporary directory.
EnterStaging ==
    /\ f_pc = "call"
    /\ f_fetches < MaxFetches
    /\ f_archive' \in StagedArchiveInputs
    /\ f_staging' = f_staging \cup {f_fetches + 1}
    /\ f_result' = NoResult
    /\ f_pc' = "staged"
    /\ UNCHANGED <<f_fetches, valVars, dlVars, trVars, upVars, vzVars>>

\* Lines 274-327: the body runs to its return or its raise, the with block is
\* left, and control is back with the caller.
LeaveStaging ==
    /\ f_pc = "staged"
    /\ LET result == staged_body(StagedUrl, region_gdf(Polygon({1})), f_archive)
       IN  /\ f_result' = result
           /\ f_staging' = cleanup(f_staging, f_fetches + 1, result)
    /\ f_fetches' = f_fetches + 1
    /\ f_pc' = "call"
    /\ UNCHANGED <<f_archive, valVars, dlVars, trVars, upVars, vzVars>>

NextFetch == EnterStaging \/ LeaveStaging

SpecFetch == InitFetch /\ [][NextFetch]_vars

(***************************************************************************)
(* Claims about the acquisition / mosaic pipeline (specification Spec)     *)
(***************************************************************************)
\* Every product/epoch pair of the request passes validation.
AllRequestedValid ==
    \A i \in DOMAIN request.epochs : \A j \in DOMAIN request.products :
        validate_product_options(request.products[j], request.epochs[i],
                                 request.resolution, request.classification).ok

\* The indices of the tiles of the current build whose fetch succeeded.
Succeeded == {i \in DOMAIN attempts : attempts[i].ok}

\* The sentinel values recorded for the tiles whose fetch succeeded.
RecordedFills == {attempts[i].fill_value.v : i \in Succeeded}

\* _download_tiles has ended, by a return or by NoDataAvailable.
BuildEnded ==
    /\ pc \in {"built", "raised"}
    /\ attempts # <<>>
    /\ Len(attempts) = Len(intersecting_tiles)

\* The area a region covers, whichever way it is given.
Area(region) == UNION Range(region.geometry)

\* C1: no archive is fetched unless every requested product/epoch pair passes
\* validation: a request with an invalid item, wherever it stands, fails with
\* no fetch issued.
C1_NoFetchBeforeAllValid == fetch_log # <<>> => AllRequestedValid

\* C2: a tiled build whose surviving tiles recorded differing sentinel values
\* fails with the inconsistency error and returns no merged grid; with identical
\* values the merge succeeds.
C2_TilesShareSentinel ==
    /\ pc = "built" => Cardinality(RecordedFills) = 1
    /\ (BuildEnded /\ Cardinality(RecordedFills) > 1) =>
           (pc = "raised" /\ outcome.kind = "FillValuesChange")
    /\ (BuildEnded /\ Cardinality(RecordedFills) = 1) => pc = "built"

\* C3: once the sentinel check has fired in a tiled build, the build returns no
\* grid: the error is not turned into a skipped tile.
C3_SentinelErrorFatal ==
    pc = "built" => \A i \in DOMAIN attempts : attempts[i].kind # "FillValuesChange"

\* C4: in a tiled build every intersecting tile is fetched exactly once, in the
\* order of the tile index, whatever the earlier fetches did, and the merged grid
\* is made of exactly the tiles whose fetch succeeded.
C4_EveryTileOnce ==
    /\ pc = "tiles" => Len(attempts) = tile_idx - 1
    /\ BuildEnded =>
         /\ [i \in DOMAIN attempts |-> attempts[i].tile_id]
              = [i \in DOMAIN intersecting_tiles |-> intersecting_tiles[i].tile_id]
         /\ Len(fetch_log) =
              ((e_idx - 1) * Len(request.products) + p_idx) * Len(intersecting_tiles)
         /\ SubSeq(fetch_log, Len(fetch_log) - Len(attempts) + 1, Len(fetch_log))
              = [i \in DOMAIN attempts |-> attempts[i].url]
    /\ pc = "built" => merged_ds.sources = {attempts[i].url : i \in Succeeded}

\* C4 witness: a build returned after its first tile failed and its second
\* succeeded.
C4_Witness ==
    /\ pc = "built"
    /\ Len(attempts) = 2
    /\ ~attempts[1].ok
    /\ attempts[2].ok

\* C5: a tiled build in which no tile succeeded fails with NoDataAvailable and
\* returns nothing; one in which a tile succeeded does not raise it.
C5_NoDataAvailable ==
    BuildEnded =>
        /\ Succeeded = {} =>
             /\ pc = "raised"
             /\ outcome = Raise("ValueError", "NoDataAvailable", <<>>)
             /\ merged_ds = NoDataset
        /\ Succeeded # {} => pc = "built"

\* C5 witness: both tiles of a two-tile region failed and the build raised.
C5_Witness ==
    /\ pc = "raised"
    /\ outcome.kind = "NoDataAvailable"
    /\ Len(attempts) = 2

\* C6: with a region, the tiles fetched are exactly those whose boundary meets
\* the area of the region, the same whether the area is given as one polygon or
\* as a collection; when there is none, the build fails with
\* NoIntersectingTiles and fetches nothing.
C6_TilesOfRegion ==
    LET area == Area(request.region)
        meeting == {i \in DOMAIN tiles_gdf : tiles_gdf[i].geometry \cap area # {}}
    IN  /\ pc \in {"tiles", "built"} =>
             /\ Range(intersecting_tiles) = {tiles_gdf[i] : i \in meeting}
             /\ Len(intersecting_tiles) = Cardinality(meeting)
             /\ intersecting_tiles = IntersectingTiles(Polygon(area))
             /\ intersecting_tiles = IntersectingTiles(GeoDataFrame(<<area, area>>))
        /\ pc = "built" =>
             {attempts[i].tile_id : i \in DOMAIN attempts}
                = {tiles_gdf[i].tile_id : i \in meeting}
        /\ (~request.region.isNone /\ meeting = {}) =>
             /\ fetch_log = <<>>
             /\ pc \notin {"tiles", "built", "returned"}
             /\ (pc = "raised" /\ AllRequestedValid
                    /\ request.products # <<>> /\ request.epochs # <<>>) =>
                    outcome = Raise("ValueError", "NoIntersectingTiles", <<>>)

\* C6 witness: a region given as a collection of two polygons selected two tiles.
C6_Witness ==
    /\ pc = "built"
    /\ request.region.isGdf
    /\ Len(request.region.geometry) = 2
    /\ Len(intersecting_tiles) = 2

\* C7: without a region, a valid request fetches exactly one archive per
\* product/epoch pair, the global one, and returns the dataset.
C7_GlobalFetch ==
    (/\ request.region.isNone
     /\ request.products # <<>>
     /\ request.epochs # <<>>
     /\ AllRequestedValid
     /\ pc \in {"returned", "raised"}) =>
        /\ pc = "returned"
        /\ Len(fetch_log) = Len(request.products) * Len(request.epochs)
        /\ \A i \in DOMAIN fetch_log : Len(fetch_log[i]) = Len(GlobalUrl(<<>>, <<>>, ""))

\* C8: the time axis of a returned dataset has one coordinate per requested
\* epoch, "<epoch>-01-01", in the order of the request, duplicates kept.
C8_TimeAxis ==
    pc = "returned" =>
        /\ Len(outcome.value.time) = Len(request.epochs)
        /\ \A i \in DOMAIN request.epochs :
             outcome.value.time[i] = ToString(request.epochs[i]) \o "-01-01"

\* C8 witness: a list of two equal epochs was downloaded.
C8_Witness ==
    /\ pc = "returned"
    /\ request.isList
    /\ Len(request.epochs) = 2
    /\ request.epochs[1] = request.epochs[2]

(***************************************************************************)
(* Claims about validation (specification SpecValidate)                    *)
(***************************************************************************)
\* The arguments are a combination the catalog declares valid.
ValidCombination(a) ==
    /\ a.product \in DOMAIN PRODUCTS
    /\ LET info == PRODUCTS[a.product]
       IN  /\ a.epoch \in Range(info.epochs)
           /\ a.resolution = None \/ a.resolution \in Range(info.resolutions)
           /\ \/ a.classification = None
              \/ /\ ~info.classifications.isNone
                 /\ a.classification \in Range(info.classifications.v)

\* C9: for every combination the catalog declares valid, validation returns the
\* normalized name, the epoch, the resolution or the default, and the
\* classification or the default (None for a product without classifications).
C9_ValidReturnsNormalized ==
    (v_pc = "done" /\ ValidCombination(v_args)) =>
        LET info == PRODUCTS[v_args.product]
        IN  /\ v_result.ok
            /\ v_result.value[1] = info.normalized_name
            /\ v_result.value[2] = v_args.epoch
            /\ v_result.value[3] = IF v_args.resolution = None
                                   THEN info.default_resolution
                                   ELSE v_args.resolution
            /\ v_result.value[4] = IF info.classifications.isNone THEN None
                                   ELSE IF v_args.classification = None
                                   THEN info.default_classification
                                   ELSE v_args.classification
            /\ Len(v_result.value) = 4

\* C9 witness: a valid call with resolution and classification omitted returned
\* with both defaults.
C9_Witness ==
    /\ v_pc = "done"
    /\ v_args.product = GHS_BUILT_C
    /\ v_args.resolution = None
    /\ v_args.classification = None
    /\ v_result.ok
    /\ v_result.value[3] = "10m"
    /\ v_result.value[4] = "MSZ"

\* C10: for a known product and an epoch outside its set, validation fails with
\* InvalidEpoch listing that product's epochs, all of them and no other, whatever
\* the resolution and the classification.
C10_InvalidEpoch ==
    (/\ v_pc = "done"
     /\ v_args.product \in DOMAIN PRODUCTS
     /\ v_args.epoch \notin Range(PRODUCTS[v_args.product].epochs)) =>
        /\ ~v_result.ok
        /\ v_result.exc = "ValueError"
        /\ v_result.kind = "InvalidEpoch"
        /\ Len(v_result.listed) = Len(PRODUCTS[v_args.product].epochs)
        /\ \A i \in DOMAIN v_result.listed :
             v_result.listed[i] = ToString(PRODUCTS[v_args.product].epochs[i])

\* C10 witness: an epoch of another product, with a resolution and a
\* classification that are both invalid too, was rejected as an epoch.
C10_Witness ==
    /\ v_pc = "done"
    /\ v_args.product = GHS_BUILT_H
    /\ v_args.epoch = 2020
    /\ v_args.resolution = "30m"
    /\ v_args.classification = "XYZ"
    /\ v_result.kind = "InvalidEpoch"

\* The call failed with the named kind of error.
Failed(result, kind) == ~result.ok /\ result.kind = kind

\* The product is in the catalog and the epoch is one of its epochs.
EpochPasses(a) ==
    a.product \in DOMAIN PRODUCTS /\ a.epoch \in Range(PRODUCTS[a.product].epochs)

\* The resolution is omitted or one of the product's resolutions.
ResolutionPasses(a) ==
    a.resolution = None \/ a.resolution \in Range(PRODUCTS[a.product].resolutions)

\* C11 as stated: for a catalog product without classifications every non-null
\* classification fails with UnsupportedClassification and an omitted one
\* returns classification None; for a product with classifications a supplied
\* classification outside its set fails with InvalidClassification and a
\* supplied resolution outside its set fails with InvalidResolution, whatever
\* the other arguments are.
C11_ClassificationErrors ==
    (v_pc = "done" /\ v_args.product \in DOMAIN PRODUCTS) =>
        LET info == PRODUCTS[v_args.product]
        IN  IF info.classifications.isNone
            THEN /\ v_args.classification # None =>
                        Failed(v_result, "UnsupportedClassification")
                 /\ v_args.classification = None =>
                        (v_result.ok /\ v_result.value[4] = None)
            ELSE /\ (/\ v_args.classification # None
                     /\ v_args.classification \notin Range(info.classifications.v)) =>
                        Failed(v_result, "InvalidClassification")
                 /\ (/\ v_args.resolution # None
                     /\ v_args.resolution \notin Range(info.resolutions)) =>
                        Failed(v_result, "InvalidResolution")

\* C11, amended: the same four outcomes, each for the arguments that pass the
\* checks made before it: the classification outcomes when the epoch is one of
\* the product's epochs and the resolution is omitted or one of its
\* resolutions, the resolution outcome when the epoch is one of its epochs.
C11_ClassificationErrorsInOrder ==
    (v_pc = "done" /\ EpochPasses(v_args)) =>
        LET info == PRODUCTS[v_args.product]
        IN  /\ (/\ ResolutionPasses(v_args)
                /\ info.classifications.isNone
                /\ v_args.classification # None) =>
                    Failed(v_result, "UnsupportedClassification")
            /\ (/\ ResolutionPasses(v_args)
                /\ info.classifications.isNone
                /\ v_args.classification = None) =>
                    (v_result.ok /\ v_result.value[4] = None)
            /\ (/\ ResolutionPasses(v_args)
                /\ ~info.classifications.isNone
                /\ v_args.classification # None
                /\ v_args.classification \notin Range(info.classifications.v)) =>
                    Failed(v_result, "InvalidClassification")
            /\ (/\ ~info.classifications.isNone
                /\ ~ResolutionPasses(v_args)) =>
                    Failed(v_result, "InvalidResolution")

C11_Witness ==
    /\ v_pc = "done"
    /\ v_args.product = GHS_POP
    /\ v_args.epoch = 2020
    /\ v_args.resolution = "100m"
    /\ v_args.classification = "NRES"
    /\ Failed(v_result, "UnsupportedClassification")

(***************************************************************************)
(* Claims about the transition engine (specification SpecTransition)       *)
(***************************************************************************)
\* The call has ended and returned a layer.
TransitionReturned == t_pc = "done" /\ t_result.ok

\* The rows of the input layer whose category is c.
RowsOf(c) == {i \in DOMAIN t_gdf : t_gdf[i].GHS_SMOD = c}

\* The calendar year of the date of input row i.
YearOfRow(i) == to_datetime(t_gdf[i].date).year

\* The calendar years among the rows of category c.
YearsOf(c) == {YearOfRow(i) : i \in RowsOf(c)}

\* The dissolved polygon of year y for category c: everything a row of the
\* category dated in y covers.
YearPolygonOf(c, y) ==
    UNION {t_gdf[i].geometry : i \in {j \in RowsOf(c) : YearOfRow(j) = y}}

\* The years with urban-centre rows and their dissolved polygons.
TargetYears == YearsOf(UrbanCentre)
YearPolygon(y) == YearPolygonOf(UrbanCentre, y)

\* C12: the yearly polygons produced are pairwise disjoint and their union is
\* the union of all years' dissolved target polygons; with year 2000 covering
\* A and year 2010 covering B, A within B, the output is A for 2000 and B minus
\* A for 2010.
C12_DisjointCover ==
    TransitionReturned =>
        LET out == t_result.value
        IN  /\ \A i, j \in DOMAIN out :
                   i # j => out[i].geometry \cap out[j].geometry = {}
            /\ UNION {out[i].geometry : i \in DOMAIN out}
                   = UNION {YearPolygon(y) : y \in TargetYears}
            /\ (TargetYears = {2000, 2010} /\ YearPolygon(2000) \subseteq YearPolygon(2010)) =>
                   out = <<[year |-> 2000, geometry |-> YearPolygon(2000)],
                           [year |-> 2010,
                            geometry |-> YearPolygon(2010) \ YearPolygon(2000)]>>

C12_Witness ==
    /\ TransitionReturned
    /\ TargetYears = {2000, 2010}
    /\ YearPolygon(2000) = {1, 2}
    /\ YearPolygon(2010) = {1, 2, 3}
    /\ t_result.value[2].geometry = {3}

\* C13: the earliest year's polygon is that year's dissolved polygon unchanged;
\* every later year's polygon is its dissolved polygon minus the union of the
\* dissolved polygons of all strictly earlier years.
C13_MinusAllEarlier ==
    TransitionReturned =>
        LET out == t_result.value
        IN  \A k \in DOMAIN out :
                /\ out[k].year \in TargetYears
                /\ (\A y \in TargetYears : out[k].year <= y) =>
                       out[k].geometry = YearPolygon(out[k].year)
                /\ out[k].geometry =
                       YearPolygon(out[k].year)
                       \ UNION {YearPolygon(z) : z \in {y \in TargetYears : y < out[k].year}}

\* Three years, the third overlapping the first outside the second.
C13_Witness ==
    /\ TransitionReturned
    /\ Len(t_result.value) = 3
    /\ t_result.value[1].geometry = YearPolygon(t_result.value[1].year)
    /\ t_result.value[3].geometry #
           YearPolygon(t_result.value[3].year) \ YearPolygon(t_result.value[2].year)

\* C14: one record per distinct calendar year among the target-category rows,
\* in strictly ascending year order whatever the order of the input rows; a
\* year lying inside the union of the earlier years still has its record, with
\* an empty geometry; no record holds area its own year does not cover.
C14_OneRecordPerYear ==
    TransitionReturned =>
        LET out == t_result.value
        IN  /\ Len(out) = Cardinality(TargetYears)
            /\ {out[k].year : k \in DOMAIN out} = TargetYears
            /\ \A k \in DOMAIN out : k > 1 => out[k - 1].year < out[k].year
            /\ \A y \in TargetYears :
                   (/\ \E z \in TargetYears : z < y
                    /\ YearPolygon(y) \subseteq
                           UNION {YearPolygon(z) : z \in {x \in TargetYears : x < y}}) =>
                       \E k \in DOMAIN out : out[k].year = y /\ out[k].geometry = {}
            /\ \A k \in DOMAIN out : out[k].geometry \subseteq YearPolygon(out[k].year)

\* Rows given latest year first, two of them in one year, the later year having
\* shrunk inside the earlier one.
C14_Witness ==
    /\ TransitionReturned
    /\ Len(t_gdf) = 3
    /\ \A i \in DOMAIN t_gdf : t_gdf[i].GHS_SMOD = UrbanCentre
    /\ t_gdf[1].date = "2010-01-01"
    /\ t_gdf[2].date = "2000-07-01"
    /\ t_gdf[3].date = "2000-01-01"
    /\ t_result.value = <<[year |-> 2000, geometry |-> {1, 2, 3}],
                          [year |-> 2010, geometry |-> {}]>>

\* The frontier of category c: per year of the category, ascending, the year's
\* dissolved polygon minus those of the strictly earlier years.
FrontierOf(c) ==
    LET years == Ascending(YearsOf(c))
    IN  [k \in DOMAIN years |->
            [year |-> years[k],
             geometry |-> YearPolygonOf(c, years[k])
                          \ UNION {YearPolygonOf(c, z) : z \in {y \in YearsOf(c) : y < years[k]}}]]

\* C15 as stated: whichever target category the caller chooses, the layer
\* returned is built from exactly the rows of that category.
C15_CallerCategory ==
    TransitionReturned => \A c \in CategoryInputs : t_result.value = FrontierOf(c)

\* C15, amended: the layer returned is built from exactly the rows whose
\* category is "Urban Centre grid cell"; rows of another category add to no
\* year's polygon and to no year.
C15_UrbanCentreOnly ==
    TransitionReturned => t_result.value = FrontierOf(UrbanCentre)

\* A layer holding rows of both categories, the other category reaching a year
\* and an area the urban-centre rows do not.
C15_Witness ==
    /\ TransitionReturned
    /\ t_result.value # <<>>
    /\ FrontierOf("Dense Urban Cluster grid cell") # <<>>
    /\ FrontierOf("Dense Urban Cluster grid cell") # t_result.value

(***************************************************************************)
(* Claims about the urban-pattern classifier (specification SpecPattern)   *)
(***************************************************************************)
\* The squared Euclidean distance between two cells.
SqDist(a, b) == (a[1] - b[1]) * (a[1] - b[1]) + (a[2] - b[2]) * (a[2] - b[2])

\* The components among `centers` with a cell at Euclidean distance strictly
\* less than the search radius from cell c.
CentersNear(centers, c) ==
    {center \in centers :
        \E d \in center : /\ u_args.search_radius > 0
                          /\ SqDist(c, d) < u_args.search_radius * u_args.search_radius}

\* C16: with at least one component detected every cell's class is 0, 1 or 2:
\* 2 exactly when more than one component lies strictly within the search
\* radius, 1 exactly when one does, 0 otherwise; with a single component no
\* cell is 2; with a positive radius every cell of a component is 1 or 2.
C16_Classes ==
    (u_pc = "done" /\ u_num_centers >= 1) =>
        LET centers == label(u_urban_centers)
        IN  \A c \in DOMAIN u_args.pop_data :
            LET class == u_result.value[c]
                near == Cardinality(CentersNear(centers, c))
            IN  /\ class \in {0, 1, 2}
                /\ class = 2 <=> near > 1
                /\ class = 1 <=> near = 1
                /\ class = 0 <=> near = 0
                /\ u_num_centers = 1 => class # 2
                /\ (u_args.search_radius > 0 /\ c \in u_urban_centers) => class \in {1, 2}

\* Two components two columns apart at radius 2: the cells between them are
\* polycentric, each component's own cells monocentric.
C16_Witness ==
    /\ u_pc = "done"
    /\ u_num_centers = 2
    /\ u_args.search_radius = 2
    /\ u_urban_centers = {<<1, 1>>, <<1, 3>>}
    /\ u_result.value[<<1, 1>>] = 1
    /\ u_result.value[<<1, 2>>] = 2

\* C17: when no component is detected, and so for an all-zero grid with any
\* threshold above 0, every cell of the grid returned is class 0 and the grid
\* has the shape of the input, whatever the search radius.
C17_NoCentersAllRural ==
    (/\ u_pc = "done"
     /\ \/ u_num_centers = 0
        \/ /\ \A c \in DOMAIN u_args.pop_data : u_args.pop_data[c] = 0
           /\ u_args.density_threshold > 0) =>
        /\ u_result.ok
        /\ DOMAIN u_result.value = DOMAIN u_args.pop_data
        /\ \A c \in DOMAIN u_result.value : u_result.value[c] = 0

\* A grid with populated cells, none of them dense enough, at the largest
\* radius.
C17_Witness ==
    /\ u_pc = "done"
    /\ u_num_centers = 0
    /\ u_args.density_threshold = 301
    /\ u_args.search_radius = 2
    /\ \E c \in DOMAIN u_args.pop_data : u_args.pop_data[c] = 3
    /\ \A c \in DOMAIN u_result.value : u_result.value[c] = 0

\* C18 as stated: a cell is in the urban-center mask exactly when its value in
\* the grid passed by the caller is at or above density_threshold.
C18_MaskOnSuppliedValues ==
    u_pc = "done" =>
        \A c \in DOMAIN u_args.pop_data :
            c \in u_urban_centers <=> u_args.pop_data[c] >= u_args.density_threshold

\* C18, amended: a cell is in the urban-center mask exactly when its value in
\* the grid passed by the caller, divided by the pixel area of 0.01 km2 (that
\* is, multiplied by 100), is at or above density_threshold.
C18_MaskOnDensity ==
    u_pc = "done" =>
        \A c \in DOMAIN u_args.pop_data :
            c \in u_urban_centers <=>
                u_args.pop_data[c] * PixelsPerKm2 >= u_args.density_threshold

\* A count of 3 makes a density of exactly 300 and is in the mask at threshold
\* 300, a count of 0 is not.
C18_Witness ==
    /\ u_pc = "done"
    /\ u_args.density_threshold = 300
    /\ u_args.pop_data[<<1, 1>>] = 3
    /\ u_args.pop_data[<<1, 2>>] = 0
    /\ <<1, 1>> \in u_urban_centers
    /\ <<1, 2>> \notin u_urban_centers

(***************************************************************************)
(* Claims about vectorization (specification SpecVectorize)                *)
(***************************************************************************)
\* The Dataset passed in holds one variable, as vectorize requires.
OneVariable == Cardinality(z_args.data.data_vars) = 1

\* The Dataset passed in has more than one time coordinate.
TimeStacked == ~z_args.data.time.isNone /\ Len(z_args.data.time.v) > 1

\* The Dataset passed in has a time axis of no coordinate.
ZeroSlices == ~z_args.data.time.isNone /\ Len(z_args.data.time.v) = 0

\* The geometry and the date of every row, in row order.
GeometryAndDate(rows) ==
    [i \in DOMAIN rows |-> [geometry |-> rows[i].geometry, date |-> rows[i].date]]

\* The polygons of the slices from slice i on, slice by slice in time-axis
\* order, each with the calendar date of its slice.
RECURSIVE SliceBySlice(_, _)
SliceBySlice(data, i) ==
    IF i > Len(data.time.v) THEN <<>>
    ELSE GeometryAndDate(with_date(shapes(data.grids[i]),
                                   strftime(to_datetime(data.time.v[i]))))
         \o SliceBySlice(data, i + 1)

\* C19: vectorize on a Dataset with more than one time coordinate processes
\* every slice once, in time-axis order, and every row carries the calendar
\* date of the slice it came from; with one time coordinate, or no time axis,
\* no row carries a date.
C19_EverySliceOnce ==
    (z_pc = "done" /\ OneVariable /\ ~ZeroSlices) =>
        /\ z_result.ok
        /\ IF TimeStacked
           THEN GeometryAndDate(z_result.value.rows) = SliceBySlice(z_args.data, 1)
           ELSE \A i \in DOMAIN z_result.value.rows : z_result.value.rows[i].date.isNone

\* The product has no class-code table in the catalog.
NoClassTable(product) == "class_values" \notin DOMAIN PRODUCTS[product]

\* C20: vectorizing a Dataset whose variable comes from a product without a
\* class-code table (GHS-BUILT-S, GHS-BUILT-V, GHS-BUILT-H, GHS-POP), named as
\* the mosaic pipeline names it, leaves the primary attribute numeric and adds
\* neither class_value nor domain.
C20_NoTableStaysNumeric ==
    (/\ z_pc = "done"
     /\ Len(z_args.products) = 1
     /\ NoClassTable(z_args.products[1])
     /\ z_result.ok) =>
        \A i \in DOMAIN z_result.value.rows :
            LET row == z_result.value.rows[i]
            IN  /\ "float" \in DOMAIN row.attr
                /\ row.class_value.isNone
                /\ row.domain.isNone

\* The product of the Dataset passed in, when it was built from one product.
OneProduct == Len(z_args.products) = 1

\* Cell values of a grid of the Dataset under the geometry of a row: the codes
\* the row can stand for.  A dated row comes from a slice of its date.
RawCodes(row) ==
    {z_args.data.grids[i][Min(row.geometry)] :
        i \in {j \in DOMAIN z_args.data.grids :
                 \/ row.date.isNone
                 \/ strftime(to_datetime(z_args.data.time.v[j])) = row.date.v}}

\* C21: for a categorical variable (its product has a class table) every row
\* keeps its raw numeric code in class_value; its primary attribute is the
\* catalog label of the code, or "Unknown class <code>" for a code outside the
\* table; a domain is attached exactly when the product has a domain table, and
\* is the table's domain of the code, or "Unknown domain".
C21_ClassAndDomain ==
    (/\ z_pc = "done"
     /\ OneProduct
     /\ ~NoClassTable(z_args.products[1])
     /\ z_result.ok) =>
        LET info == PRODUCTS[z_args.products[1]]
        IN  \A i \in DOMAIN z_result.value.rows :
                LET row == z_result.value.rows[i]
                IN  /\ ~row.class_value.isNone
                    /\ row.class_value.v \in RawCodes(row)
                    /\ row.attr =
                         Text(IF row.class_value.v \in DOMAIN info.class_values
                              THEN info.class_values[row.class_value.v]
                              ELSE "Unknown class " \o ToString(row.class_value.v))
                    /\ row.domain.isNone <=> "domains" \notin DOMAIN info
                    /\ "domains" \in DOMAIN info =>
                         row.domain.v =
                             IF row.class_value.v \in DOMAIN info.domains
                             THEN info.domains[row.class_value.v]
                             ELSE "Unknown domain"

\* A GHS-SMOD grid with a code of the table beside one outside it.
C21_Witness ==
    /\ z_pc = "done"
    /\ z_args.products = <<GHS_SMOD>>
    /\ z_result.ok
    /\ Len(z_result.value.rows) = 2
    /\ z_result.value.rows[1].class_value = Some(30)
    /\ z_result.value.rows[1].attr = Text("Urban Centre grid cell")
    /\ z_result.value.rows[1].domain = Some("Urban domain")
    /\ z_result.value.rows[2].class_value = Some(1)
    /\ z_result.value.rows[2].attr = Text("Unknown class 1")
    /\ z_result.value.rows[2].domain = Some("Unknown domain")

(***************************************************************************)
(* Further claims about the acquisition / mosaic pipeline                  *)
(***************************************************************************)
\* The request names no product twice.
DistinctProducts ==
    \A i, j \in DOMAIN request.products :
        i # j => request.products[i] # request.products[j]

\* C22: the Dataset returned for a request naming several distinct products
\* holds one variable per requested product, so no two products share a
\* variable name and no grid is merged into another's.
C22_OneVariablePerProduct ==
    (pc = "returned" /\ DistinctProducts) =>
        Cardinality(outcome.value.data_vars) = Len(request.products)

(***************************************************************************)
(* Claims about one archive fetch (specification SpecFetch)                *)
(***************************************************************************)
\* A fetch has ended and control is back with its caller.
FetchEnded == f_pc = "call" /\ f_fetches >= 1

\* The fetch got as far as the sentinel check of lines 318-320.
SentinelCheckReached ==
    f_archive.reachable /\ f_archive.extractable /\ f_archive.fillvalues # <<>>

\* C23: the sentinel check over the recorded sentinel values passes exactly
\* when all the values are identical; a list with two different values is
\* rejected even when its values average to the first, as in [0, 1, -1].
C23_PassIffIdentical ==
    (FetchEnded /\ SentinelCheckReached) =>
        (~Failed(f_result, "FillValuesChange")
            <=> \A i, j \in DOMAIN f_archive.fillvalues :
                    f_archive.fillvalues[i] = f_archive.fillvalues[j])

\* C25: the temporary directory of a fetch exists only inside the with block:
\* whenever control is with the caller, after any number of fetches and
\* however each ended, no temporary directory is left.
C25_StagingReleased ==
    /\ f_pc = "call" => f_staging = {}
    /\ f_pc = "staged" => f_staging = {f_fetches + 1}

\* Two fetches have ended, the last on a failed sentinel check.
C25_Witness ==
    /\ f_pc = "call"
    /\ f_fetches = 2
    /\ Failed(f_result, "FillValuesChange")
    /\ f_staging = {}

\* C24: vectorize on a one-variable Dataset whose time axis yields no slice
\* fails with the "No valid data found for vectorization" error
\* (EmptyVectorization) instead of returning a layer.
C24_ZeroSlicesRaise ==
    (z_pc = "done" /\ OneVariable /\ ZeroSlices) =>
        Failed(z_result, "EmptyVectorization")

(***************************************************************************)
(* Claims about the catalog and URL construction (SpecValidate)            *)
(***************************************************************************)
\* The request was accepted: validate_product_options returned its tuple.
Accepted == v_pc = "done" /\ v_result.ok

\* C26: for every accepted request URL construction succeeds: the normalized
\* name turned back ("_" to "-") finds the catalog entry of the requested
\* product, and the template looked up by the normalized classification, or
\* else by the None key, is defined; the product's default resolution is one
\* of its resolutions, its default classification one of its classifications,
\* and its template table has a key for each classification or the None key.
C26_AcceptedRequestsHaveUrl ==
    Accepted =>
        LET name == v_result.value[1]
            epoch == v_result.value[2]
            cls == v_result.value[4]
            info == PRODUCTS[v_args.product]
        IN  /\ get_product_info(Replace(name, "_", "-")) = Return(info)
            /\ ~DictGet(info.url_pattern, cls,
                        DictGet(info.url_pattern, None, Nothing)).isNone
            /\ base_product_name(name, epoch, cls).ok
            /\ v_result.value[3] \in Range(info.resolutions)
            /\ info.default_resolution \in Range(info.resolutions)
            /\ ~info.classifications.isNone =>
                   /\ info.default_classification \in Range(info.classifications.v)
                   /\ cls \in Range(info.classifications.v)
                   /\ \A c \in Range(info.classifications.v) :
                          c \in DOMAIN info.url_pattern \/ None \in DOMAIN info.url_pattern
            /\ info.classifications.isNone =>
                   cls = None /\ None \in DOMAIN info.url_pattern

\* A request without resolution and classification was accepted and the
\* defaults of GHS-BUILT-S were put in.
C26_Witness ==
    /\ Accepted
    /\ v_args.product = GHS_BUILT_S
    /\ v_args.resolution = None
    /\ v_args.classification = None
    /\ v_result.value[3] = "100m"
    /\ v_result.value[4] = "RES+NRES"
    /\ base_product_name(v_result.value[1], v_result.value[2], v_result.value[4]).ok

====
